---- MODULE Spec2Model ----
(***************************************************************************)
(* A model of the async ticket server: the validated value types and the   *)
(* TicketStore of src/src/data.rs, and the Command protocol, the accept    *)
(* loop with its per-connection task, and the client side of               *)
(* src/src/lib.rs.                                                         *)
(*                                                                         *)
(* Strings are modelled by their byte length and one fill byte: S(n, c) is *)
(* the string of n bytes c.  JSON documents are modelled by their shape:   *)
(* the externally tagged object serde_json writes for a Command, with the  *)
(* nesting of "draft"/"patch" flattened into one field map.                *)
(***************************************************************************)
EXTENDS Integers, Sequences, FiniteSets, TLC

(* ----------------------------- bounds --------------------------------- *)

\* number of connections peers open during one run
NumConns == 3

Conns == 1..NumConns

\* the ticket ids a peer names in a Get or an Update: the first two the store
\* issues, each of them issued or not when the request arrives
ReqIds == {0, 1}

(* ------------------------ validated value types ----------------------- *)

MaxTitleLen == 50
MaxDescriptionLen == 500

S(n, c) == [len |-> n, ch |-> c]

\* a validate_title that already rejects a title of exactly the bound
validate_title_strict(title) ==
    IF title.len = 0 THEN "Empty"
    ELSE IF title.len >= MaxTitleLen THEN "TooLong"
    ELSE "Ok"

\* data.rs validate_title: Empty, TooLong or Ok
validate_title(title) ==
    IF title.len = 0 THEN "Empty"
    ELSE IF title.len > MaxTitleLen THEN "TooLong"
    ELSE "Ok"

\* data.rs validate_description: Empty, TooLong or Ok
validate_description(description) ==
    IF description.len = 0 THEN "Empty"
    ELSE IF description.len > MaxDescriptionLen THEN "TooLong"
    ELSE "Ok"

\* data.rs TryFrom<String> / TryFrom<&str> for TicketTitle: validate, then wrap
TitleTryFrom(value) ==
    IF validate_title(value) = "Ok" THEN [ok |-> TRUE, val |-> value]
    ELSE [ok |-> FALSE, err |-> validate_title(value)]

\* data.rs TryFrom<String> / TryFrom<&str> for TicketDescription
DescriptionTryFrom(value) ==
    IF validate_description(value) = "Ok" THEN [ok |-> TRUE, val |-> value]
    ELSE [ok |-> FALSE, err |-> validate_description(value)]

StatusNames == {"ToDo", "InProgress", "Done"}

\* Option<T>: None is << >>, Some(x) is <<x>>
None == << >>
Some(x) == <<x>>
IsSome(o) == Len(o) = 1

(* ------------------------------ JSON ---------------------------------- *)

JStr(s) == [t |-> "str", s |-> s]
JNum(n) == [t |-> "num", n |-> n]
JNull == [t |-> "null"]

\* a JSON object {"Tag": {fields}} read from or written to a socket
JDoc(tag, body) == [j |-> "obj", tag |-> tag, body |-> body]
\* a strict prefix of a JSON document: the peer went away mid-request
JTruncated == [j |-> "truncated"]
\* nothing written
JEmpty == [j |-> "empty"]

Has(body, f) == f \in DOMAIN body
IsStr(body, f) == Has(body, f) /\ body[f].t = "str"
IsNum(body, f) == Has(body, f) /\ body[f].t = "num" /\ body[f].n >= 0
IsAbsent(body, f) == ~Has(body, f) \/ body[f].t = "null"

\* derive(Deserialize) on the newtype TicketTitle(String): any JSON string
DeTicketTitle(v) == v.s

\* derive(Deserialize) on the newtype TicketDescription(String): any JSON string
DeTicketDescription(v) == v.s

\* derive(Deserialize) for an Option<String newtype> field of TicketPatch
DeOptStr(body, f) == IF IsAbsent(body, f) THEN None ELSE Some(body[f].s)

OptStrOk(body, f) == IsAbsent(body, f) \/ IsStr(body, f)

OptStatusOk(body, f) ==
    IsAbsent(body, f) \/ (IsStr(body, f) /\ body[f].s \in StatusNames)

DeOptStatus(body, f) == IF IsAbsent(body, f) THEN None ELSE Some(body[f].s)

DecodeFail == [ok |-> FALSE]
DecodeOk(cmd) == [ok |-> TRUE, cmd |-> cmd]

\* serde_json::from_slice::<Command>: the derived Deserialize of Command,
\* TicketDraft, TicketPatch, TicketId, Status and the two string newtypes
DecodeCommand(buf) ==
    IF buf.j # "obj" THEN DecodeFail
    ELSE IF buf.tag = "Insert" THEN
        IF IsStr(buf.body, "title") /\ IsStr(buf.body, "description")
        THEN DecodeOk([type |-> "Insert",
                       draft |-> [title |-> DeTicketTitle(buf.body["title"]),
                                  description |->
                                      DeTicketDescription(buf.body["description"])]])
        ELSE DecodeFail
    ELSE IF buf.tag = "Get" THEN
        IF IsNum(buf.body, "id")
        THEN DecodeOk([type |-> "Get", id |-> buf.body["id"].n])
        ELSE DecodeFail
    ELSE IF buf.tag = "Update" THEN
        IF /\ IsNum(buf.body, "id")
           /\ OptStrOk(buf.body, "title")
           /\ OptStrOk(buf.body, "description")
           /\ OptStatusOk(buf.body, "status")
        THEN DecodeOk([type |-> "Update",
                       patch |-> [id |-> buf.body["id"].n,
                                  title |-> DeOptStr(buf.body, "title"),
                                  description |-> DeOptStr(buf.body, "description"),
                                  status |-> DeOptStatus(buf.body, "status")]])
        ELSE DecodeFail
    ELSE DecodeFail

SerOptStr(o) == IF IsSome(o) THEN JStr(o[1]) ELSE JNull

\* an encoder of Command that leaves the patch's status out of the document
EncodeCommandSkipsStatus(cmd) ==
    IF cmd.type = "Insert" THEN
        JDoc("Insert", [title |-> JStr(cmd.draft.title),
                        description |-> JStr(cmd.draft.description)])
    ELSE IF cmd.type = "Get" THEN
        JDoc("Get", [id |-> JNum(cmd.id)])
    ELSE
        JDoc("Update", [id |-> JNum(cmd.patch.id),
                        title |-> SerOptStr(cmd.patch.title),
                        description |-> SerOptStr(cmd.patch.description)])

\* serde_json::to_vec(&Command): the derived Serialize
EncodeCommand(cmd) ==
    IF cmd.type = "Insert" THEN
        JDoc("Insert", [title |-> JStr(cmd.draft.title),
                        description |-> JStr(cmd.draft.description)])
    ELSE IF cmd.type = "Get" THEN
        JDoc("Get", [id |-> JNum(cmd.id)])
    ELSE
        JDoc("Update", [id |-> JNum(cmd.patch.id),
                        title |-> SerOptStr(cmd.patch.title),
                        description |-> SerOptStr(cmd.patch.description),
                        status |-> SerOptStr(cmd.patch.status)])

\* serde_json::to_vec(&TicketId): a bare number
EncodeTicketId(id) == [j |-> "num", n |-> id]

\* serde_json::to_vec(&Ticket): an object of the four fields
EncodeTicket(ticket) ==
    [j |-> "ticket",
     body |-> [id |-> JNum(ticket.id),
               title |-> JStr(ticket.title),
               description |-> JStr(ticket.description),
               status |-> JStr(ticket.status)]]

\* serde_json::from_slice::<Ticket>: the derived Deserialize, as the client
\* applies it to the reply of a Get
DecodeTicket(bytes) ==
    IF /\ bytes.j = "ticket"
       /\ IsNum(bytes.body, "id")
       /\ IsStr(bytes.body, "title")
       /\ IsStr(bytes.body, "description")
       /\ IsStr(bytes.body, "status")
       /\ bytes.body["status"].s \in StatusNames
    THEN [ok |-> TRUE,
          val |-> [id |-> bytes.body["id"].n,
                   title |-> DeTicketTitle(bytes.body["title"]),
                   description |-> DeTicketDescription(bytes.body["description"]),
                   status |-> bytes.body["status"].s]]
    ELSE [ok |-> FALSE, err |-> "decode"]

\* serde_json::to_vec(&TicketDraft): an object of the two fields
EncodeTicketDraft(draft) ==
    [j |-> "draft",
     body |-> [title |-> JStr(draft.title),
               description |-> JStr(draft.description)]]

\* serde_json::from_slice::<TicketDraft>: the derived Deserialize
DecodeTicketDraft(bytes) ==
    IF /\ bytes.j = "draft"
       /\ IsStr(bytes.body, "title")
       /\ IsStr(bytes.body, "description")
    THEN [ok |-> TRUE,
          val |-> [title |-> DeTicketTitle(bytes.body["title"]),
                   description |-> DeTicketDescription(bytes.body["description"])]]
    ELSE [ok |-> FALSE, err |-> "decode"]

(* --------------------------- the ticket store ------------------------- *)

\* mutant: the draft's two strings land in each other's field
NewTicketSwapped(id, draft) ==
    [id |-> id, title |-> draft.description, description |-> draft.title,
     status |-> "ToDo"]

\* data.rs Ticket, as add_ticket builds it from a draft
NewTicket(id, draft) ==
    [id |-> id, title |-> draft.title, description |-> draft.description,
     status |-> "ToDo"]

\* a slot of the table: Arc<RwLock<Ticket>>, the ticket and who holds its lock
NewSlot(ticket) == [val |-> ticket, writer |-> {}, readers |-> {}]

\* mutant: the counter is read and never incremented
NextCounterStuck(ctr) == ctr

\* mutant: the counter advances by two
NextCounterSkips(ctr) == ctr + 2

\* data.rs add_ticket: self.counter += 1 (a u64; 2^64 inserts are out of reach)
NextCounter(ctr) == ctr + 1

\* data.rs TicketStore::add_ticket: the table after the insert
add_ticket(tbl, ctr, draft) ==
    [i \in DOMAIN tbl \cup {ctr} |->
        IF i = ctr THEN NewSlot(NewTicket(ctr, draft)) ELSE tbl[i]]

\* data.rs TicketStore::get: Some(handle) or None; the handle is the key
StoreGet(tbl, id) == IF id \in DOMAIN tbl THEN Some(id) ELSE None

\* mutant: applying a patch also renumbers the ticket
ApplyPatchRenumbers(ticket, patch) ==
    [id |-> patch.id + 1,
     title |-> IF IsSome(patch.title) THEN patch.title[1] ELSE ticket.title,
     description |-> IF IsSome(patch.description) THEN patch.description[1]
                     ELSE ticket.description,
     status |-> IF IsSome(patch.status) THEN patch.status[1] ELSE ticket.status]

\* mutant: the Update arm answers without writing any field
ApplyPatchLost(ticket, patch) == ticket

\* mutant: an absent status is written as the default status
ApplyPatchWholesale(ticket, patch) ==
    [id |-> ticket.id,
     title |-> IF IsSome(patch.title) THEN patch.title[1] ELSE ticket.title,
     description |-> IF IsSome(patch.description) THEN patch.description[1]
                     ELSE ticket.description,
     status |-> IF IsSome(patch.status) THEN patch.status[1] ELSE "ToDo"]

\* mutant: the description of a patch is never written
ApplyPatchDropsDescription(ticket, patch) ==
    [id |-> ticket.id,
     title |-> IF IsSome(patch.title) THEN patch.title[1] ELSE ticket.title,
     description |-> ticket.description,
     status |-> IF IsSome(patch.status) THEN patch.status[1] ELSE ticket.status]

\* lib.rs Update arm: the three `if let Some(..) = patch.field` assignments
ApplyPatch(ticket, patch) ==
    [id |-> ticket.id,
     title |-> IF IsSome(patch.title) THEN patch.title[1] ELSE ticket.title,
     description |-> IF IsSome(patch.description) THEN patch.description[1]
                     ELSE ticket.description,
     status |-> IF IsSome(patch.status) THEN patch.status[1] ELSE ticket.status]

(* ------------------------- what peers may send ------------------------ *)

InsertCmd(t, d) == [type |-> "Insert", draft |-> [title |-> t, description |-> d]]
GetCmd(id) == [type |-> "Get", id |-> id]
UpdateCmd(id, t, d, s) ==
    [type |-> "Update",
     patch |-> [id |-> id, title |-> t, description |-> d, status |-> s]]

\* patches the client builds from validated values: one field, another field,
\* and every field
PatchTitle == [title |-> Some(S(8, "m")), description |-> None, status |-> None]
PatchStatus == [title |-> None, description |-> None, status |-> Some("InProgress")]
PatchAll ==
    [title |-> Some(S(3, "x")), description |-> Some(S(16, "y")),
     status |-> Some("Done")]

WithId(i, p) == UpdateCmd(i, p.title, p.description, p.status)

\* commands the TicketClient of lib.rs can send: every string went through
\* try_from (the draft has the longest title and description that pass)
ClientCommands ==
    { InsertCmd(S(50, "b"), S(500, "c")) }
    \cup { GetCmd(i) : i \in ReqIds }
    \cup { WithId(0, PatchTitle), WithId(0, PatchStatus), WithId(0, PatchAll),
           WithId(1, PatchAll) }

\* documents a peer that is not the TicketClient can write
RawPayloads ==
    { JDoc("Insert", [title |-> JStr(S(51, "a")), description |-> JStr(S(0, "a"))]),
      JDoc("Update", [id |-> JNum(0), title |-> JStr(S(0, "a")),
                      description |-> JStr(S(501, "c"))]),
      JDoc("Delete", [id |-> JNum(0)]) }

Payloads == { EncodeCommand(cmd) : cmd \in ClientCommands } \cup RawPayloads

(* ------------------------------- state -------------------------------- *)

VARIABLES
    peer,      \* per connection: what the peer has done with its socket
    backlog,   \* connections established and not yet accepted, oldest first
    hpc,       \* ticket_handler: "accept", "await" (response_handle.await), "dead"
    cur,       \* the connection whose task ticket_handler awaits (0: none)
    tpc,       \* per connection: where its spawned task is
    buf,       \* per connection: the task's buf after read_to_end
    req,       \* per connection: the task's decoded request
    resp,      \* per connection: the task's encoded response
    reply,     \* per connection: the bytes the peer received
    counter,   \* TicketStore.counter
    tickets,   \* TicketStore.tickets: id -> slot
    storeW,    \* tasks holding the store's RwLock for writing
    storeR,    \* tasks holding the store's RwLock for reading
    order,     \* history: the connections whose command reached the store, in that order
    before,    \* history: <<c, d>> when c's reply arrived before d's request was sent
    born,      \* history: the store the run started from
    probe      \* a value handed to try_from or to the codec, and what came back

vars == <<peer, backlog, hpc, cur, tpc, buf, req, resp, reply,
          counter, tickets, storeW, storeR, order, before, born, probe>>

NoCmd == [type |-> "none"]

\* the server right after TicketStore::new(), before the first accept
ServerInit ==
    /\ peer = [c \in Conns |-> "none"]
    /\ backlog = << >>
    /\ hpc = "accept"
    /\ cur = 0
    /\ tpc = [c \in Conns |-> "none"]
    /\ buf = [c \in Conns |-> JEmpty]
    /\ req = [c \in Conns |-> NoCmd]
    /\ resp = [c \in Conns |-> JEmpty]
    /\ reply = [c \in Conns |-> JEmpty]
    /\ counter = 0
    /\ tickets = << >>
    /\ storeW = {}
    /\ storeR = {}
    /\ order = << >>
    /\ before = {}
    /\ born = [counter |-> 0, tickets |-> << >>]

\* the results of the Rust functions the probes call
Ok(v) == [ok |-> TRUE, val |-> v]
Err(e) == [ok |-> FALSE, err |-> e]
Pending == [ok |-> FALSE, err |-> "pending"]

\* no value is being probed: the run is a run of the server
NoProbe == [kind |-> "none"]

Init == ServerInit /\ probe = NoProbe

(* ------------------------------- peers -------------------------------- *)

\* connections are numbered in the order in which they are established
NextConn(c) == \A d \in Conns : d < c => peer[d] # "none"

\* TcpStream::connect: the connection joins the listener's backlog; once
\* ticket_handler has returned the listener is gone and the connect is refused
ClientConnect(c) ==
    /\ peer[c] = "none"
    /\ NextConn(c)
    /\ IF hpc = "dead"
       THEN /\ peer' = [peer EXCEPT ![c] = "refused"]
            /\ UNCHANGED backlog
       ELSE /\ peer' = [peer EXCEPT ![c] = "connected"]
            /\ backlog' = Append(backlog, c)
    /\ UNCHANGED <<hpc, cur, tpc, buf, req, resp, reply,
                   counter, tickets, storeW, storeR, order,
                   before, born, probe>>

\* the socket of connection c is still open at the server's end: it waits in
\* the backlog of a live listener, or its task is reading it
SocketOpen(c) == tpc[c] = "read" \/ (tpc[c] = "none" /\ hpc # "dead")

\* writer.write_all(request) then writer.shutdown(): one document, then end of
\* input.  The document stays in the socket until the task reads it, and is
\* drawn there (TaskRead): no step can tell the two apart.
ClientSend(c) ==
    /\ peer[c] = "connected"
    /\ SocketOpen(c)
    /\ peer' = [peer EXCEPT ![c] = "halfclosed"]
    /\ before' = before \cup { <<d, c>> : d \in { e \in Conns : tpc[e] = "done" } }
    /\ UNCHANGED <<backlog, hpc, cur, tpc, buf, req, resp, reply,
                   counter, tickets, storeW, storeR, order, born, probe>>

\* the peer goes away before it has written a complete command
ClientDrop(c) ==
    /\ peer[c] = "connected"
    /\ SocketOpen(c)
    /\ peer' = [peer EXCEPT ![c] = "dropped"]
    /\ UNCHANGED <<backlog, hpc, cur, tpc, buf, req, resp, reply,
                   counter, tickets, storeW, storeR, order,
                   before, born, probe>>

(* --------------------------- ticket_handler --------------------------- *)

\* listener.accept().await, store.clone(), tokio::spawn(task)
HandlerAccept ==
    /\ hpc = "accept"
    /\ backlog # << >>
    /\ cur' = Head(backlog)
    /\ backlog' = Tail(backlog)
    /\ tpc' = [tpc EXCEPT ![Head(backlog)] = "read"]
    /\ hpc' = "await"
    /\ UNCHANGED <<peer, buf, req, resp, reply,
                   counter, tickets, storeW, storeR, order,
                   before, born, probe>>

\* response_handle.await.unwrap() on a task that ran to its end: loop again
HandlerJoin ==
    /\ hpc = "await"
    /\ tpc[cur] = "done"
    /\ hpc' = "accept"
    /\ cur' = 0
    /\ UNCHANGED <<peer, backlog, tpc, buf, req, resp, reply,
                   counter, tickets, storeW, storeR, order,
                   before, born, probe>>

\* response_handle.await.unwrap() on a task that panicked: the JoinError is
\* unwrapped, ticket_handler panics, and ticket_server's own unwrap follows
HandlerJoinPanic ==
    /\ hpc = "await"
    /\ tpc[cur] = "panicked"
    /\ hpc' = "dead"
    /\ UNCHANGED <<peer, backlog, cur, tpc, buf, req, resp, reply,
                   counter, tickets, storeW, storeR, order,
                   before, born, probe>>

(* ------------------------ the per-connection task --------------------- *)

\* reader.read_to_end(&mut buf): returns once the peer has ended its output,
\* with the document p the peer wrote
TaskRead(c, p) ==
    /\ tpc[c] = "read"
    /\ peer[c] = "halfclosed"
    /\ buf' = [buf EXCEPT ![c] = p]
    /\ tpc' = [tpc EXCEPT ![c] = "decode"]
    /\ UNCHANGED <<peer, backlog, hpc, cur, req, resp, reply,
                   counter, tickets, storeW, storeR, order,
                   before, born, probe>>

\* read_to_end returns Ok at the end of input of a peer that went away: buf
\* holds the part of a document it had written
TaskReadTruncated(c) ==
    /\ tpc[c] = "read"
    /\ peer[c] = "dropped"
    /\ buf' = [buf EXCEPT ![c] = JTruncated]
    /\ tpc' = [tpc EXCEPT ![c] = "decode"]
    /\ UNCHANGED <<peer, backlog, hpc, cur, req, resp, reply,
                   counter, tickets, storeW, storeR, order,
                   before, born, probe>>

\* read_to_end returns Err (the peer reset the connection): unwrap panics
TaskReadErr(c) ==
    /\ tpc[c] = "read"
    /\ peer[c] = "dropped"
    /\ tpc' = [tpc EXCEPT ![c] = "panicked"]
    /\ UNCHANGED <<peer, backlog, hpc, cur, buf, req, resp, reply,
                   counter, tickets, storeW, storeR, order,
                   before, born, probe>>

\* the arm of `match request` the task enters
Arm(cmd) ==
    IF cmd.type = "Insert" THEN "ins_lock"
    ELSE IF cmd.type = "Get" THEN "get_lock"
    ELSE "upd_lock"

\* serde_json::from_slice(&buf).unwrap(): a Command, or a panic
TaskDecode(c) ==
    /\ tpc[c] = "decode"
    /\ LET r == DecodeCommand(buf[c]) IN
         IF r.ok
         THEN /\ req' = [req EXCEPT ![c] = r.cmd]
              /\ tpc' = [tpc EXCEPT ![c] = Arm(r.cmd)]
         ELSE /\ tpc' = [tpc EXCEPT ![c] = "panicked"]
              /\ UNCHANGED req
    /\ UNCHANGED <<peer, backlog, hpc, cur, buf, resp, reply,
                   counter, tickets, storeW, storeR, order,
                   before, born, probe>>

\* Insert arm: store_client.write().await
InsertLock(c) ==
    /\ tpc[c] = "ins_lock"
    /\ storeW = {} /\ storeR = {}
    /\ storeW' = {c}
    /\ tpc' = [tpc EXCEPT ![c] = "ins_add"]
    /\ UNCHANGED <<peer, backlog, hpc, cur, buf, req, resp, reply,
                   counter, tickets, storeR, order,
                   before, born, probe>>

\* Insert arm: .add_ticket(draft) under the write guard, the guard dropped at
\* the end of the statement, then serde_json::to_vec(&id)
InsertAdd(c) ==
    /\ tpc[c] = "ins_add"
    /\ tickets' = add_ticket(tickets, counter, req[c].draft)
    /\ counter' = NextCounter(counter)
    /\ resp' = [resp EXCEPT ![c] = EncodeTicketId(counter)]
    /\ storeW' = storeW \ {c}
    /\ order' = Append(order, c)
    /\ tpc' = [tpc EXCEPT ![c] = "write"]
    /\ UNCHANGED <<peer, backlog, hpc, cur, buf, req, reply, storeR,
                   before, born, probe>>

\* mutant: the Get arm takes the table lock for writing
GetLockExclusive(c) ==
    /\ tpc[c] = "get_lock"
    /\ storeW = {} /\ storeR = {}
    /\ storeW' = {c}
    /\ tpc' = [tpc EXCEPT ![c] = "get_lookup"]
    /\ UNCHANGED <<peer, backlog, hpc, cur, buf, req, resp, reply,
                   counter, tickets, storeR, order, before, born, probe>>

\* Get arm: store_client.read().await
GetLock(c) ==
    /\ tpc[c] = "get_lock"
    /\ storeW = {}
    /\ storeR' = storeR \cup {c}
    /\ tpc' = [tpc EXCEPT ![c] = "get_lookup"]
    /\ UNCHANGED <<peer, backlog, hpc, cur, buf, req, resp, reply,
                   counter, tickets, storeW, order,
                   before, born, probe>>

\* Get arm: store_reader.get(id).unwrap(); on None the task panics and the
\* unwinding drops store_reader
GetLookup(c) ==
    /\ tpc[c] = "get_lookup"
    /\ IF IsSome(StoreGet(tickets, req[c].id))
       THEN /\ tpc' = [tpc EXCEPT ![c] = "get_tlock"]
            /\ UNCHANGED storeR
       ELSE /\ tpc' = [tpc EXCEPT ![c] = "panicked"]
            /\ storeR' = storeR \ {c}
    /\ UNCHANGED <<peer, backlog, hpc, cur, buf, req, resp, reply,
                   counter, tickets, storeW, order,
                   before, born, probe>>

\* Get arm: ticket.read().await, store_reader still held
GetTicketLock(c) ==
    /\ tpc[c] = "get_tlock"
    /\ tickets[req[c].id].writer = {}
    /\ tickets' = [tickets EXCEPT ![req[c].id].readers = @ \cup {c}]
    /\ tpc' = [tpc EXCEPT ![c] = "get_clone"]
    /\ UNCHANGED <<peer, backlog, hpc, cur, buf, req, resp, reply,
                   counter, storeW, storeR, order,
                   before, born, probe>>

\* Get arm: serde_json::to_vec(&ticket.clone()); both guards dropped at the
\* end of the arm
GetClone(c) ==
    /\ tpc[c] = "get_clone"
    /\ resp' = [resp EXCEPT ![c] = EncodeTicket(tickets[req[c].id].val)]
    /\ tickets' = [tickets EXCEPT ![req[c].id].readers = @ \ {c}]
    /\ storeR' = storeR \ {c}
    /\ order' = Append(order, c)
    /\ tpc' = [tpc EXCEPT ![c] = "write"]
    /\ UNCHANGED <<peer, backlog, hpc, cur, buf, req, reply,
                   counter, storeW,
                   before, born, probe>>

\* Update arm: store_client.read().await
UpdateLock(c) ==
    /\ tpc[c] = "upd_lock"
    /\ storeW = {}
    /\ storeR' = storeR \cup {c}
    /\ tpc' = [tpc EXCEPT ![c] = "upd_lookup"]
    /\ UNCHANGED <<peer, backlog, hpc, cur, buf, req, resp, reply,
                   counter, tickets, storeW, order,
                   before, born, probe>>

\* mutant: the Update arm unwraps the lookup as the Get arm does
UpdateLookupUnwrap(c) ==
    /\ tpc[c] = "upd_lookup"
    /\ IF IsSome(StoreGet(tickets, req[c].patch.id))
       THEN /\ tpc' = [tpc EXCEPT ![c] = "upd_tlock"]
            /\ UNCHANGED storeR
       ELSE /\ tpc' = [tpc EXCEPT ![c] = "panicked"]
            /\ storeR' = storeR \ {c}
    /\ UNCHANGED <<peer, backlog, hpc, cur, buf, req, resp, reply,
                   counter, tickets, storeW, order, before, born, probe>>

\* Update arm: if let Some(ticket_locked) = store_reader.get(patch.id)
UpdateLookup(c) ==
    /\ tpc[c] = "upd_lookup"
    /\ IF IsSome(StoreGet(tickets, req[c].patch.id))
       THEN /\ tpc' = [tpc EXCEPT ![c] = "upd_tlock"]
            /\ UNCHANGED order
       ELSE /\ tpc' = [tpc EXCEPT ![c] = "upd_reply"]
            /\ order' = Append(order, c)
    /\ UNCHANGED <<peer, backlog, hpc, cur, buf, req, resp, reply,
                   counter, tickets, storeW, storeR,
                   before, born, probe>>

\* Update arm: ticket_locked.write().await, store_reader still held
UpdateTicketLock(c) ==
    /\ tpc[c] = "upd_tlock"
    /\ tickets[req[c].patch.id].writer = {}
    /\ tickets[req[c].patch.id].readers = {}
    /\ tickets' = [tickets EXCEPT ![req[c].patch.id].writer = {c}]
    /\ tpc' = [tpc EXCEPT ![c] = "upd_apply"]
    /\ UNCHANGED <<peer, backlog, hpc, cur, buf, req, resp, reply,
                   counter, storeW, storeR, order,
                   before, born, probe>>

\* Update arm: the field assignments, then the ticket guard dropped at the end
\* of the if-let block
UpdateApply(c) ==
    /\ tpc[c] = "upd_apply"
    /\ tickets' = [tickets EXCEPT
                     ![req[c].patch.id].val = ApplyPatch(@, req[c].patch),
                     ![req[c].patch.id].writer = @ \ {c}]
    /\ order' = Append(order, c)
    /\ tpc' = [tpc EXCEPT ![c] = "upd_reply"]
    /\ UNCHANGED <<peer, backlog, hpc, cur, buf, req, resp, reply,
                   counter, storeW, storeR,
                   before, born, probe>>

\* Update arm: serde_json::to_vec(&patch.id); store_reader dropped at the end
\* of the arm
UpdateReply(c) ==
    /\ tpc[c] = "upd_reply"
    /\ resp' = [resp EXCEPT ![c] = EncodeTicketId(req[c].patch.id)]
    /\ storeR' = storeR \ {c}
    /\ tpc' = [tpc EXCEPT ![c] = "write"]
    /\ UNCHANGED <<peer, backlog, hpc, cur, buf, req, reply,
                   counter, tickets, storeW, order,
                   before, born, probe>>

\* writer.write_all(&response); the task ends and its socket is closed, which
\* ends the peer's read_to_end
TaskWrite(c) ==
    /\ tpc[c] = "write"
    /\ reply' = [reply EXCEPT ![c] = resp[c]]
    /\ tpc' = [tpc EXCEPT ![c] = "done"]
    /\ UNCHANGED <<peer, backlog, hpc, cur, buf, req, resp,
                   counter, tickets, storeW, storeR, order,
                   before, born, probe>>

(* --------------------------- specification ---------------------------- *)

Next ==
    \/ \E c \in Conns : ClientConnect(c)
    \/ \E c \in Conns : ClientSend(c)
    \/ \E c \in Conns : ClientDrop(c)
    \/ HandlerAccept
    \/ HandlerJoin
    \/ HandlerJoinPanic
    \/ \E c \in Conns, p \in Payloads : TaskRead(c, p)
    \/ \E c \in Conns : TaskReadTruncated(c)
    \/ \E c \in Conns : TaskReadErr(c)
    \/ \E c \in Conns : TaskDecode(c)
    \/ \E c \in Conns : InsertLock(c)
    \/ \E c \in Conns : InsertAdd(c)
    \/ \E c \in Conns : GetLock(c)
    \/ \E c \in Conns : GetLookup(c)
    \/ \E c \in Conns : GetTicketLock(c)
    \/ \E c \in Conns : GetClone(c)
    \/ \E c \in Conns : UpdateLock(c)
    \/ \E c \in Conns : UpdateLookup(c)
    \/ \E c \in Conns : UpdateTicketLock(c)
    \/ \E c \in Conns : UpdateApply(c)
    \/ \E c \in Conns : UpdateReply(c)
    \/ \E c \in Conns : TaskWrite(c)

Spec == Init /\ [][Next]_vars

(* ------------------------ notions the claims use ---------------------- *)

\* the tickets of a table, without the locks of their slots
Vals(tbl) == [i \in DOMAIN tbl |-> tbl[i].val]

Range(seq) == { seq[k] : k \in 1..Len(seq) }

IsInsert(c) == req[c].type = "Insert"
IsGet(c) == req[c].type = "Get"
IsUpdate(c) == req[c].type = "Update"

\* the connection's task has ended, one way or the other
Ended(c) == tpc[c] \in {"done", "panicked"}

\* the peer has got a reply
Replied(c) == reply[c] # JEmpty

\* the connections whose Insert reached the store, in allocation order
Inserts == SelectSeq(order, LAMBDA c : req[c].type = "Insert")

\* the reply that carries ticket id n
IdReply(n) == [j |-> "num", n |-> n]

\* the reply that carries a ticket of these four fields
TicketReply(id, title, description, status) ==
    [j |-> "ticket",
     body |-> [id |-> [t |-> "num", n |-> id],
               title |-> [t |-> "str", s |-> title],
               description |-> [t |-> "str", s |-> description],
               status |-> [t |-> "str", s |-> status]]]

TitleInBounds(s) == s.len >= 1 /\ s.len <= MaxTitleLen
DescriptionInBounds(s) == s.len >= 1 /\ s.len <= MaxDescriptionLen

\* both requests were sent, and neither peer had its reply when the other sent
Concurrent(c, d) ==
    /\ c # d
    /\ peer[c] = "halfclosed" /\ peer[d] = "halfclosed"
    /\ <<c, d>> \notin before /\ <<d, c>> \notin before

(* ------------------------------- C1 ----------------------------------- *)

\* C1: the k-th Insert to reach the store (counting from 0) is answered with
\* id k, no two Insert replies carry the same id, and an insert reads the
\* counter, increments it and inserts as the only holder of the table lock, so
\* that outside that step the table's keys are exactly the ids handed out.
C1_InsertIdsUniqueIncreasing ==
    /\ \A k \in 1..Len(Inserts) : resp[Inserts[k]] = IdReply(k - 1)
    /\ \A c, d \in Conns :
         (c # d /\ IsInsert(c) /\ IsInsert(d) /\ Replied(c) /\ Replied(d))
            => reply[c] # reply[d]
    /\ \A c \in Conns : tpc[c] = "ins_add" => (storeW = {c} /\ storeR = {})
    /\ counter = Len(Inserts)
    /\ DOMAIN tickets = 0..(counter - 1)

\* three Inserts have been answered
C1_Witness ==
    \E c, d, e \in Conns :
        /\ c # d /\ d # e /\ c # e
        /\ IsInsert(c) /\ IsInsert(d) /\ IsInsert(e)
        /\ Replied(c) /\ Replied(d) /\ Replied(e)

(* ------------------------------- C2 ----------------------------------- *)

\* C2: a Get for an id the store never issued does not take the path of a
\* malformed request (the task's panic, which closes the connection with no
\* reply): its task runs to the end and the peer gets a reply.
C2_GetMissingIsAnswered ==
    \A c \in Conns :
        (IsGet(c) /\ req[c].id \notin DOMAIN tickets /\ Ended(c))
            => (tpc[c] = "done" /\ Replied(c))

(* ------------------------------- C3 ----------------------------------- *)

\* C3: after a connection failed to deliver a Command (undecodable bytes, or a
\* peer that went away mid-request) the accept loop is still running.
C3_FailureStaysLocal ==
    (\E c \in Conns : tpc[c] = "panicked" /\ req[c] = NoCmd) => hpc # "dead"

(* ------------------------------- C4 ----------------------------------- *)

\* C4: no request reaches the dispatch step with a title outside [1, 50] bytes
\* or a description outside [1, 500] bytes.
C4_DecodeRejectsBadLengths ==
    \A c \in Conns :
        /\ IsInsert(c) =>
             /\ TitleInBounds(req[c].draft.title)
             /\ DescriptionInBounds(req[c].draft.description)
        /\ IsUpdate(c) =>
             /\ req[c].patch.title # None => TitleInBounds(req[c].patch.title[1])
             /\ req[c].patch.description # None =>
                    DescriptionInBounds(req[c].patch.description[1])

(* ------------------------------- C5 ----------------------------------- *)

\* C5: every ticket in the store has a title of 1..50 bytes and a description
\* of 1..500 bytes.
C5_StoredFieldsInBounds ==
    \A i \in DOMAIN tickets :
        /\ TitleInBounds(tickets[i].val.title)
        /\ DescriptionInBounds(tickets[i].val.description)

(* ------------------------------- C6 ----------------------------------- *)

\* C6: while an accepted connection waits for its peer to end its input, the
\* next connection in the backlog, whose peer has sent its request, can be
\* accepted.
C6_HeldConnectionDoesNotBlock ==
    \A c \in Conns :
        (/\ tpc[c] = "read" /\ peer[c] = "connected"
         /\ backlog # << >> /\ peer[Head(backlog)] = "halfclosed")
            => ENABLED HandlerAccept

(* ------------------------------- C7 ----------------------------------- *)

\* the value a field has after a patch: the patch's when present, else the old
Patched(opt, old) == IF opt # None THEN opt[1] ELSE old

\* C7: the step of an Update that writes the found ticket sets each field the
\* patch carries to the patch's value and leaves the ticket's other fields, its
\* id, every other ticket, the key set and the counter as they were; and the
\* step of a Get that builds the response builds it from the ticket as stored.
C7_UpdateWritesPresentFieldsOnly ==
    [][ \A c \in Conns :
          /\ (tpc[c] = "upd_apply" /\ tpc'[c] # "upd_apply") =>
                LET p == req[c].patch
                    old == tickets[p.id].val
                    new == tickets'[p.id].val
                IN  /\ new.id = old.id /\ new.id = p.id
                    /\ new.title = Patched(p.title, old.title)
                    /\ new.description = Patched(p.description, old.description)
                    /\ new.status = Patched(p.status, old.status)
                    /\ DOMAIN tickets' = DOMAIN tickets
                    /\ \A i \in DOMAIN tickets \ {p.id} :
                           tickets'[i].val = tickets[i].val
                    /\ counter' = counter
          /\ (tpc[c] = "get_clone" /\ tpc'[c] # "get_clone") =>
                LET t == tickets[req[c].id].val
                IN  resp'[c] = TicketReply(t.id, t.title, t.description, t.status)
      ]_vars

\* an Update carrying only a status was applied to a ticket, and the Get of
\* that id that followed it was answered with the new status and the title and
\* description the ticket was inserted with
C7_Witness ==
    \E k \in 1..(Len(order) - 1) :
        LET u == order[k]
            g == order[k + 1]
        IN  /\ IsUpdate(u) /\ IsGet(g)
            /\ req[u].patch.title = None /\ req[u].patch.description = None
            /\ req[u].patch.status = Some("InProgress")
            /\ req[g].id = req[u].patch.id
            /\ reply[g] = TicketReply(req[g].id, S(50, "b"), S(500, "c"), "InProgress")

(* ------------------------------- C8 ----------------------------------- *)

\* C8: when an Insert was answered with id i and a later Get of i was answered,
\* with no Update naming i between the two, the Get's reply is the ticket of
\* id i, the draft's title and description, and status ToDo.
C8_GetAfterInsertReturnsDraft ==
    \A k, m \in 1..Len(order) :
        LET c == order[k]
            g == order[m]
        IN  (/\ k < m
             /\ IsInsert(c) /\ IsGet(g) /\ Replied(g)
             /\ resp[c] = IdReply(req[g].id)
             /\ \A n \in (k + 1)..(m - 1) :
                    ~(IsUpdate(order[n]) /\ req[order[n]].patch.id = req[g].id))
            => reply[g] = TicketReply(req[g].id, req[c].draft.title,
                                      req[c].draft.description, "ToDo")

\* an Insert and then a Get of the id it returned have both been answered
C8_Witness ==
    \E c, g \in Conns :
        /\ IsInsert(c) /\ IsGet(g) /\ Replied(c) /\ Replied(g)
        /\ reply[c] = IdReply(req[g].id)
        /\ reply[g].body.status.s = "ToDo"

(* ------------------------------- C9 ----------------------------------- *)

\* C9: no step of the task of an Update whose id is not in the table changes
\* the table's keys, the counter or any stored ticket; the task does not
\* panic, and the reply it writes carries the patch's id.
C9_UpdateMissingIsNoOp ==
    [][ \A c \in Conns :
          (/\ tpc'[c] # tpc[c]
           /\ req'[c].type = "Update"
           /\ req'[c].patch.id \notin DOMAIN tickets)
            => /\ Vals(tickets') = Vals(tickets)
               /\ counter' = counter
               /\ tpc'[c] # "panicked"
               /\ tpc'[c] = "done" => reply'[c] = IdReply(req[c].patch.id)
      ]_vars

\* an Update of an id that is not in the table has been answered
C9_Witness ==
    \E c \in Conns :
        /\ IsUpdate(c) /\ req[c].patch.id \notin DOMAIN tickets
        /\ tpc[c] = "done" /\ reply[c] = IdReply(req[c].patch.id)

(* ------------------------------- C10 ---------------------------------- *)

\* a sequential ticket store: one command applied to [counter, tickets]
SeqApply(st, cmd) ==
    IF cmd.type = "Insert" THEN
        [counter |-> st.counter + 1,
         tickets |-> [i \in DOMAIN st.tickets \cup {st.counter} |->
                        IF i = st.counter
                        THEN [id |-> st.counter, title |-> cmd.draft.title,
                              description |-> cmd.draft.description,
                              status |-> "ToDo"]
                        ELSE st.tickets[i]]]
    ELSE IF cmd.type = "Update" /\ cmd.patch.id \in DOMAIN st.tickets THEN
        [counter |-> st.counter,
         tickets |-> [i \in DOMAIN st.tickets |->
                        IF i = cmd.patch.id
                        THEN [id |-> i,
                              title |-> Patched(cmd.patch.title, st.tickets[i].title),
                              description |-> Patched(cmd.patch.description,
                                                      st.tickets[i].description),
                              status |-> Patched(cmd.patch.status,
                                                 st.tickets[i].status)]
                        ELSE st.tickets[i]]]
    ELSE st

RECURSIVE SeqReplay(_, _)
\* the sequential store after the commands of the connections of seq, in order
SeqReplay(st, seq) ==
    IF seq = << >> THEN st
    ELSE SeqReplay(SeqApply(st, req[Head(seq)]), Tail(seq))

\* every way to put the connections of a set in a row
Orders(set) ==
    { f \in [1..Cardinality(set) -> set] :
        \A a, b \in 1..Cardinality(set) : a # b => f[a] # f[b] }

AnsweredInserts == { c \in Conns : IsInsert(c) /\ Replied(c) }

\* C11: when only Inserts have reached the store, all of them sent before any
\* of them was answered, and all of them answered, the ids in the N replies
\* are exactly 0 .. N-1.
C11_ConcurrentInsertsFillRange ==
    (/\ \A c \in Range(order) : c \in AnsweredInserts
     /\ born.counter = 0
     /\ \A c, d \in AnsweredInserts : c # d => Concurrent(c, d))
    => { reply[c].n : c \in AnsweredInserts } = 0..(Cardinality(AnsweredInserts) - 1)

\* three Inserts, all sent before any reply, have all been answered
C11_Witness ==
    /\ Cardinality(AnsweredInserts) >= 3
    /\ Range(order) = AnsweredInserts
    /\ \A c, d \in AnsweredInserts : c # d => Concurrent(c, d)

(* ------------------------------- C12 ---------------------------------- *)

\* the peer of c wrote one command of the TicketClient and ended its output
SentClientCommand(c) ==
    buf[c] \in { EncodeCommand(cmd) : cmd \in ClientCommands }

\* the number of times c's command reached the store
TimesApplied(c) == Cardinality({ k \in 1..Len(order) : order[k] = c })

\* C12: a connection that carried one well-formed command ends with the
\* command applied to the store exactly once and exactly one reply written,
\* whether the command is an Insert, an Update or a Get, of an id that is in
\* the table or not.
C12_OneRequestOneReply ==
    \A c \in Conns :
        (SentClientCommand(c) /\ Ended(c))
            => (tpc[c] = "done" /\ Replied(c) /\ TimesApplied(c) = 1)

(* ------------------- the constructors on raw strings ------------------ *)

\* the longest raw string handed to try_from: one byte past the larger bound
MaxRawLen == 501

\* raw strings of every byte length up to MaxRawLen
RawStrings == { S(n, "a") : n \in 0..MaxRawLen }

\* a raw string, before either constructor has been called on it
InitValidate ==
    /\ ServerInit
    /\ probe \in { [kind |-> "try_from", raw |-> s, title |-> Pending,
                    description |-> Pending] : s \in RawStrings }

\* TicketTitle::try_from(raw)
TryTitle ==
    /\ probe.kind = "try_from"
    /\ probe.title = Pending
    /\ probe' = [probe EXCEPT !.title = TitleTryFrom(probe.raw)]
    /\ UNCHANGED <<peer, backlog, hpc, cur, tpc, buf, req, resp, reply,
                   counter, tickets, storeW, storeR, order, before, born>>

\* TicketDescription::try_from(raw)
TryDescription ==
    /\ probe.kind = "try_from"
    /\ probe.description = Pending
    /\ probe' = [probe EXCEPT !.description = DescriptionTryFrom(probe.raw)]
    /\ UNCHANGED <<peer, backlog, hpc, cur, tpc, buf, req, resp, reply,
                   counter, tickets, storeW, storeR, order, before, born>>

NextValidate == TryTitle \/ TryDescription

SpecValidate == InitValidate /\ [][NextValidate]_vars

(* C13 *)

\* what a constructor with bound n is to return for the raw string s
Constructed(s, n) ==
    IF s.len = 0 THEN Err("Empty")
    ELSE IF s.len > n THEN Err("TooLong")
    ELSE Ok(s)

\* C13: for every raw string, constructing a TicketTitle fails with Empty at
\* byte length 0, fails with TooLong above 50 and otherwise yields the string
\* itself; TicketDescription does the same with bound 500
C13_ConstructorsCheckLength ==
    probe.kind = "try_from" =>
        /\ probe.title # Pending => probe.title = Constructed(probe.raw, 50)
        /\ probe.description # Pending
               => probe.description = Constructed(probe.raw, 500)

\* a string of exactly 50 bytes went through both constructors
C13_Witness ==
    /\ probe.kind = "try_from"
    /\ probe.raw.len = 50
    /\ probe.title = Ok(probe.raw)
    /\ probe.description = Ok(probe.raw)

(* ----------------------- the codec on its own ------------------------- *)

\* titles and descriptions that try_from accepts, the boundary lengths included
CodecTitles == { s \in {S(1, "a"), S(50, "b")} : TitleTryFrom(s).ok }
CodecDescriptions == { s \in {S(1, "a"), S(500, "c")} : DescriptionTryFrom(s).ok }
OptOf(set) == {None} \cup { Some(x) : x \in set }

CodecDrafts == { [title |-> t, description |-> d] :
                     t \in CodecTitles, d \in CodecDescriptions }
CodecTickets == { [id |-> i, title |-> t, description |-> d, status |-> s] :
                      i \in ReqIds, t \in CodecTitles, d \in CodecDescriptions,
                      s \in StatusNames }
CodecCommands ==
    { [type |-> "Insert", draft |-> dr] : dr \in CodecDrafts }
    \cup { GetCmd(i) : i \in ReqIds }
    \cup { UpdateCmd(i, t, d, s) : i \in ReqIds, t \in OptOf(CodecTitles),
               d \in OptOf(CodecDescriptions), s \in OptOf(StatusNames) }

\* a protocol value, not yet encoded
InitCodec ==
    /\ ServerInit
    /\ probe \in { [kind |-> "codec", type |-> "Command", val |-> v,
                    bytes |-> JEmpty, back |-> Pending] : v \in CodecCommands }
             \cup { [kind |-> "codec", type |-> "TicketDraft", val |-> v,
                      bytes |-> JEmpty, back |-> Pending] : v \in CodecDrafts }
             \cup { [kind |-> "codec", type |-> "Ticket", val |-> v,
                      bytes |-> JEmpty, back |-> Pending] : v \in CodecTickets }

\* serde_json::to_vec(&v)
CodecEncode ==
    /\ probe.kind = "codec"
    /\ probe.bytes = JEmpty
    /\ probe' = [probe EXCEPT !.bytes =
                     IF probe.type = "Command" THEN EncodeCommand(probe.val)
                     ELSE IF probe.type = "TicketDraft"
                          THEN EncodeTicketDraft(probe.val)
                     ELSE EncodeTicket(probe.val)]
    /\ UNCHANGED <<peer, backlog, hpc, cur, tpc, buf, req, resp, reply,
                   counter, tickets, storeW, storeR, order, before, born>>

\* serde_json::from_slice(&bytes), at the type the value was encoded from
CodecDecode ==
    /\ probe.kind = "codec"
    /\ probe.bytes # JEmpty
    /\ probe.back = Pending
    /\ probe' = [probe EXCEPT !.back =
                     IF probe.type = "Command"
                     THEN (LET r == DecodeCommand(probe.bytes)
                           IN  IF r.ok THEN Ok(r.cmd) ELSE Err("decode"))
                     ELSE IF probe.type = "TicketDraft"
                          THEN DecodeTicketDraft(probe.bytes)
                     ELSE DecodeTicket(probe.bytes)]
    /\ UNCHANGED <<peer, backlog, hpc, cur, tpc, buf, req, resp, reply,
                   counter, tickets, storeW, storeR, order, before, born>>

NextCodec == CodecEncode \/ CodecDecode

SpecCodec == InitCodec /\ [][NextCodec]_vars

(* C14 *)

\* C14: decoding what was encoded succeeds and gives back the value, for every
\* Command, TicketDraft and Ticket built from valid titles and descriptions
C14_DecodeEncodeIsIdentity ==
    (probe.kind = "codec" /\ probe.back # Pending)
        => probe.back = [ok |-> TRUE, val |-> probe.val]

\* an Update whose three optional fields are all present made the round trip
C14_Witness ==
    /\ probe.kind = "codec"
    /\ probe.type = "Command"
    /\ probe.val.type = "Update"
    /\ probe.val.patch.title # None
    /\ probe.val.patch.description # None
    /\ probe.val.patch.status # None
    /\ probe.back = [ok |-> TRUE, val |-> probe.val]

(* C15 *)

\* the task is waiting for, or holds, the lock of the ticket it looked up
AtTicketLock(c) == tpc[c] \in {"get_tlock", "get_clone", "upd_tlock", "upd_apply"}

\* C15: a task that looks up a ticket for Get or Update has released the
\* table-level read lock before it waits for or holds the ticket-level lock
C15_TableLockReleasedBeforeTicketLock ==
    \A c \in Conns : AtTicketLock(c) => c \notin storeR

(* C16 *)

\* the tasks that hold the write lock of a ticket
TicketWriters == UNION { tickets[k].writer : k \in DOMAIN tickets }

\* C16: operations on different tickets do not serialize: while an Update
\* holds the write lock of its ticket, the next request waiting at the
\* listener can be taken up, so that an Update of another ticket can hold its
\* own write lock at the same time
C16_UpdatesOfDifferentTicketsOverlap ==
    (/\ TicketWriters # {}
     /\ backlog # << >> /\ peer[Head(backlog)] = "halfclosed")
        => ENABLED HandlerAccept

(* C17 *)

\* C17: in every reachable state, so after every Insert and every Update, the
\* table's keys are exactly 0 .. counter-1 and the ticket stored under key k
\* has id k: no Update changes the id of a stored ticket
C17_TableWellFormed ==
    /\ DOMAIN tickets = 0..(counter - 1)
    /\ \A k \in DOMAIN tickets : tickets[k].val.id = k

\* two tickets are stored and an Update has rewritten every other field of
\* the second one
C17_Witness ==
    \E c \in Conns :
        /\ IsUpdate(c) /\ tpc[c] = "done"
        /\ counter = 2
        /\ req[c].patch.id = 1
        /\ req[c].patch.title # None
        /\ tickets[1].val.title = req[c].patch.title[1]
        /\ tickets[1].val.status = req[c].patch.status[1]

(* C18 *)

\* C18: only Insert changes the table's structure.  No step of a Get or an
\* Update task, found or not, changes the key set or the counter, and no step
\* of a Get task changes a stored ticket; such a task never has write access
\* to the table lock, whose only writers are Insert tasks; and the key set and
\* the counter change only in the add_ticket step of an Insert
C18_OnlyInsertChangesStructure ==
    [][ /\ \A c \in Conns :
              (tpc'[c] # tpc[c] /\ req'[c].type \in {"Get", "Update"})
                  => /\ DOMAIN tickets' = DOMAIN tickets
                     /\ counter' = counter
                     /\ req'[c].type = "Get" => Vals(tickets') = Vals(tickets)
                     /\ c \notin storeW'
        /\ \A c \in storeW' : req'[c].type = "Insert"
        /\ (DOMAIN tickets' # DOMAIN tickets \/ counter' # counter)
              => \E c \in Conns : /\ req[c].type = "Insert"
                                  /\ tpc[c] = "ins_add" /\ tpc'[c] = "write"
      ]_vars

\* a Get and an Update of a stored ticket have both been answered
C18_Witness ==
    \E g, u \in Conns :
        /\ IsGet(g) /\ IsUpdate(u)
        /\ tpc[g] = "done" /\ tpc[u] = "done"
        /\ Replied(g) /\ Replied(u)
        /\ req[g].id \in DOMAIN tickets
        /\ req[u].patch.id \in DOMAIN tickets

(* C19 *)

\* the task holds a table-level or a ticket-level lock
HoldsLock(c) ==
    \/ c \in storeW \cup storeR
    \/ \E k \in DOMAIN tickets : c \in tickets[k].writer \cup tickets[k].readers

\* the store is a local of ticket_handler: it is there to serve requests as
\* long as ticket_handler runs
StoreServes == hpc # "dead"

\* C19: after a connection has failed, the failed task holds no lock and the
\* store is still the one later requests are served from
C19_FailureLeavesStoreIntact ==
    \A c \in Conns : tpc[c] = "panicked" => (~HoldsLock(c) /\ StoreServes)

(* C20 *)

\* the task is waiting for a table-level or a ticket-level lock
AtLockWait(c) ==
    tpc[c] \in {"ins_lock", "get_lock", "get_tlock", "upd_lock", "upd_tlock"}

\* the step in which a waiting task gets its lock
Acquire(c) ==
    \/ InsertLock(c) \/ GetLock(c) \/ GetTicketLock(c)
    \/ UpdateLock(c) \/ UpdateTicketLock(c)

\* C20: the locking never deadlocks and never ends in an error: a task that
\* waits for a lock is never blocked for good (the lock can be had), and a task
\* that has entered its command's arm, and so has waited for a lock, does not
\* end in a panic but completes its command
C20_LockWaitsEndInCompletion ==
    \A c \in Conns :
        /\ AtLockWait(c) => ENABLED Acquire(c)
        /\ req[c] # NoCmd => tpc[c] # "panicked"

(* C21 *)

\* the connections whose peer has got a reply
Answered == { c \in Conns : Replied(c) }

\* the reply of the sequential store to one command
SeqReply(st, cmd) ==
    IF cmd.type = "Insert" THEN IdReply(st.counter)
    ELSE IF cmd.type = "Update" THEN IdReply(cmd.patch.id)
    ELSE IF cmd.type = "Get" /\ cmd.id \in DOMAIN st.tickets THEN
        TicketReply(cmd.id, st.tickets[cmd.id].title,
                    st.tickets[cmd.id].description, st.tickets[cmd.id].status)
    ELSE [j |-> "notfound"]

RECURSIVE Linearizes(_, _)
\* the connections of rest can be put in a row that keeps real time (a command
\* answered before another was sent stands earlier) and in which the
\* sequential store, starting from st and fed their commands one at a time,
\* gives each of them the reply its peer got
Linearizes(st, rest) ==
    \/ rest = {}
    \/ \E c \in rest :
          /\ \A d \in rest : <<d, c>> \notin before
          /\ SeqReply(st, req[c]) = reply[c]
          /\ Linearizes(SeqApply(st, req[c]), rest \ {c})

\* C21: the server is linearizable: in every state the answered commands can
\* be put in a row that keeps real time and in which a sequential store,
\* fed the commands one at a time, gives every reply the peers have got; so an
\* Update that was answered is seen by every Get sent afterwards
C21_Linearizable ==
    Linearizes([counter |-> born.counter, tickets |-> Vals(born.tickets)], Answered)

\* an Insert, then an Update of the ticket's title sent after the Insert's
\* reply, then a Get sent after the Update's reply, which shows the new title
C21_Witness ==
    \E i, u, g \in Conns :
        /\ IsInsert(i) /\ IsUpdate(u) /\ IsGet(g)
        /\ Replied(i) /\ Replied(u) /\ Replied(g)
        /\ <<i, u>> \in before /\ <<u, g>> \in before
        /\ req[u].patch.id = reply[i].n /\ req[g].id = reply[i].n
        /\ req[u].patch.title # None
        /\ req[u].patch.title[1] # req[i].draft.title
        /\ reply[g].body.title.s = req[u].patch.title[1]

====
